---- MODULE Spec2Model ----
(***************************************************************************)
(* The LLM request dispatcher of src/src/background/worker.ts: the message *)
(* handlers of the service worker, the in-worker rate limiter queue        *)
(* (enqueue / pump / awaitBudget / resetBuckets / scheduleNextReset) and   *)
(* the notifications askOpenAI sends to a request's tab.                   *)
(*                                                                         *)
(* Time.  Date.now() is the variable now, in milliseconds.  The code uses  *)
(* the clock only through differences of timestamps and through            *)
(* now % WINDOW_MS, so every timestamp is kept relative to the start of    *)
(* the current WINDOW_MS-aligned window: when the clock reaches the next   *)
(* boundary all timestamps are shifted down by WINDOW_MS together (Shift). *)
(* A timestamp that lies so far in the past that the code can no longer    *)
(* tell it from a later one is clamped (ShiftDue, ShiftStart).  setTimeout *)
(* guarantees only that a callback does not run before its deadline: a     *)
(* timer fires at any instant at or after it.                              *)
(***************************************************************************)
EXTENDS Integers, Sequences, FiniteSets, TLC

\* ---------------------------------------------------------------- constants
MIN_INTERVAL_MS == 1200
WINDOW_MS == 60000
RATE_MAX_RPM == 30
RATE_MAX_TPM == 40000
BUDGET_MIN_WAIT_MS == 200
BUDGET_MARGIN_MS == 100
CHARS_PER_TOKEN == 4
ATTEMPTS == 3
BACKOFF_START_MS == 1500
MSG_OVERHEAD_CHARS == 20

\* ------------------------------------------------------------------- bounds
\* ASK_LLM messages received in one behaviour
MaxTasks == 3
\* SET_API_KEY / CLEAR_API_KEY messages received in one behaviour of KeySpec
MaxKeyMsgs == 1
\* ASK_LLM messages received in one behaviour of KeySpec
MaxKeyTasks == 2
\* ASK_LLM messages received in one behaviour of FairSpec
MaxLiveTasks == 2
\* ASK_LLM messages in the specification of a burst of retried calls
MaxBurstTasks == 11

Max(a, b) == IF a >= b THEN a ELSE b

NoKey == "null"
Keys == {"sk-1"}
NoTab == 0
Tabs == {1}
NoTask == 0
TaskIds == 1..Max(MaxTasks, Max(MaxKeyTasks, MaxLiveTasks))
BurstTaskIds == 1..MaxBurstTasks

\* ------------------------------------------------------------ request input
\* A chat turn is its role, the length of its content, whether the content
\* matches /highlight\s+([\w\s\-\/]+)$/i and, if so, the trimmed text of the
\* group it captures; a context is the length of its JSON.
Turn(role, len, hl, phrase) == [role |-> role, len |-> len, hl |-> hl, phrase |-> phrase]

UserTurn(len, hl) == Turn("user", len, hl, IF hl THEN "Create role" ELSE "")

Payloads ==
    { [messages |-> << >>, context |-> 0],
      [messages |-> << UserTurn(CHARS_PER_TOKEN * RATE_MAX_TPM - MSG_OVERHEAD_CHARS, TRUE) >>,
       context |-> 0],
      [messages |-> << UserTurn(CHARS_PER_TOKEN * RATE_MAX_TPM - MSG_OVERHEAD_CHARS, FALSE) >>,
       context |-> 1] }

\* The payloads of KeySpec: nothing to count, and a whole window's tokens.
KeyPayloads ==
    { [messages |-> << >>, context |-> 0],
      [messages |-> << UserTurn(CHARS_PER_TOKEN * RATE_MAX_TPM - MSG_OVERHEAD_CHARS, TRUE) >>,
       context |-> 0] }

RECURSIVE SumChars(_)
SumChars(messages) ==
    IF messages = << >> THEN 0
    ELSE Head(messages).len + MSG_OVERHEAD_CHARS + SumChars(Tail(messages))

\* Math.ceil(chars / 4)
estimateTokens(messages, context) ==
    (SumChars(messages) + context + CHARS_PER_TOKEN - 1) \div CHARS_PER_TOKEN

\* How long fetchWithBackoff takes to return text: less than the spacing
\* interval, or more.
RunTimes == { MIN_INTERVAL_MS \div 2, 2 * MIN_INTERVAL_MS }

\* fetchWithBackoff fails only after ATTEMPTS attempts, each followed by a
\* sleep of the backoff delay, which starts at BACKOFF_START_MS and doubles:
\* the time a failing call takes at least.
FailTime == BACKOFF_START_MS * (2 ^ ATTEMPTS - 1)

\* The HTTP requests of a call that returns text after d ms: one, or, when
\* that leaves room for two waits of a second, three (two answers 429 with
\* retry-after: 1, then the stream).
AttemptsWithin(d) == IF d < 2 * 1000 THEN 1 ELSE ATTEMPTS

\* What the network makes of a call of fetchWithBackoff: whether it returns
\* text, when it ends, and how many HTTP requests it issued.
Transports ==
    {[ok |-> TRUE, after |-> d, attempts |-> AttemptsWithin(d)] : d \in RunTimes}
        \cup {[ok |-> FALSE, after |-> FailTime, attempts |-> ATTEMPTS]}

VARIABLES
    now,            \* Date.now(), relative to the current window's start
    OPENAI_API_KEY, \* the in-memory key
    sessionKey,     \* chrome.storage.session's OPENAI_API_KEY
    localKey,       \* chrome.storage.local's OPENAI_API_KEY
    queue,          \* the queue of task ids
    busy,
    lastStart,
    rpmRemaining,
    tpmRemaining,
    windowEndsAt,
    resetAt,        \* deadline of the timer set by scheduleNextReset
    cur,            \* the task pump took from the queue, NoTask when none
    timerAt,        \* deadline of cur's pending timer or of its callback's end
    fetchOk,        \* whether the running callback's fetchWithBackoff returns text
    st,             \* per request: where its handler or task is
    req,            \* per request: sender tab, payload, pending storage read
    sent,           \* what the step just taken handed to chrome.tabs.sendMessage, and for which request
    nAsk,           \* ASK_LLM messages received
    nKeyMsg,        \* key messages received
    enqOrder,       \* history: task ids in the order enqueue() was called
    winAdmitted,    \* history: admissions in the current aligned window
    winTokens,      \* history: tokens deducted in the current aligned window
    winRequests,    \* history: HTTP requests known to be issued in the current aligned window
    nReserved,      \* history: per request, reservations awaitBudget deducted for its task
    nInvoked,       \* history: per request, times pump called its task's run()
    runAt,          \* history: instant the latest callback started
    noKey,          \* history: no credential anywhere while handled
    fwb,            \* a call of fetchWithBackoff followed on its own: its locals
    sse,            \* a call of parseSSE followed on its own: its locals
    ask             \* a call of askOpenAI followed on its own: its inputs and what it sent

\* the dispatcher's state: keys, queue, rate budget, requests
dispatcherVars ==
    << now, OPENAI_API_KEY, sessionKey, localKey, queue, busy, lastStart,
       rpmRemaining, tpmRemaining, windowEndsAt, resetAt, cur, timerAt, fetchOk,
       st, req, sent, nAsk, nKeyMsg, enqOrder, winAdmitted, winTokens,
       winRequests, nReserved, nInvoked, runAt, noKey >>

\* the calls followed on their own
callVars == << fwb, sse, ask >>

vars == << dispatcherVars, callVars >>

keyVars == << OPENAI_API_KEY, sessionKey, localKey, nKeyMsg >>
rateVars == << rpmRemaining, tpmRemaining, windowEndsAt >>
histVars == << winAdmitted, winTokens, winRequests, nReserved, nInvoked, runAt >>

\* -------------------------------------------------------------------- clock
nextWindow(t) == t - (t % WINDOW_MS) + WINDOW_MS

NoSent == [req |-> NoTask, notes |-> << >>, ok |-> FALSE, threw |-> FALSE]

NoReq == [tab |-> NoTab, payload |-> [messages |-> << >>, context |-> 0], got |-> NoKey]

\* The dispatcher after the worker script has run.
\* The worker MIN_INTERVAL_MS before the end of a window, with key in memory
\* and the requests ids to come.
StartedWith(key, ids) ==
    /\ now = WINDOW_MS - MIN_INTERVAL_MS
    /\ OPENAI_API_KEY = key
    /\ sessionKey \in Keys \cup {key}
    /\ localKey \in {NoKey}
    /\ queue = << >>
    /\ busy = FALSE
    /\ lastStart = -MIN_INTERVAL_MS
    /\ rpmRemaining = RATE_MAX_RPM
    /\ tpmRemaining = RATE_MAX_TPM
    /\ windowEndsAt = nextWindow(now)
    /\ resetAt = now + Max(0, nextWindow(now) - now)
    /\ cur = NoTask
    /\ timerAt = 0
    /\ fetchOk = FALSE
    /\ st = [r \in ids |-> "none"]
    /\ req = [r \in ids |-> NoReq]
    /\ sent = NoSent
    /\ nAsk = 0
    /\ nKeyMsg = 0
    /\ enqOrder = << >>
    /\ winAdmitted = 0
    /\ winTokens = 0
    /\ winRequests = 0
    /\ nReserved = [r \in ids |-> 0]
    /\ nInvoked = [r \in ids |-> 0]
    /\ runAt = -MIN_INTERVAL_MS
    /\ noKey = [r \in ids |-> FALSE]

\* The worker as it starts: let OPENAI_API_KEY: string | null = null.
DispatcherInit == StartedWith(NoKey, TaskIds)

\* No call is followed on its own.
NoCall == [pc |-> "none"]

Init ==
    /\ DispatcherInit
    /\ fwb = NoCall
    /\ sse = NoCall
    /\ ask = NoCall

\* ----------------------------------------------------------- notifications
\* A notification is its kind, its text (fullText or error) and, for a
\* synthesized action, the text of its one target (role button).
Note(kind, text) == [kind |-> kind, text |-> text, target |-> ""]
MissingKeyNote == Note("LLM_ERROR", "Missing API key")
DoneNote == Note("LLM_DONE", "fullText")
ActionNote == Note("LLM_ACTION", "extracted")
SimActionNote(phrase) == [kind |-> "LLM_ACTION", text |-> "highlight", target |-> phrase]
SimErrorNote == Note("LLM_ERROR", "Network error, simulated action.")
ErrorNote == Note("LLM_ERROR", "err")

\* messages[messages.length - 1]?.content matched against the highlight pattern
FallbackMatches(messages) ==
    /\ messages # << >>
    /\ messages[Len(messages)].hl

\* askOpenAI, from the return of fetchWithBackoff on: gotText says whether it
\* returned text, hasAction whether the text holds a {...} block that parses
\* with an action field, alive how many chrome.tabs.sendMessage calls resolve
\* before the destination tab is gone (every later one rejects).  The result is
\* the notifications handed to sendMessage, in order, and whether askOpenAI
\* itself rejects.
askOpenAI(messages, gotText, hasAction, alive) ==
    IF gotText /\ alive >= 1
    THEN [sent |-> << DoneNote >> \o (IF hasAction THEN << ActionNote >> ELSE << >>),
          rejects |-> FALSE]
    ELSE LET first == IF gotText THEN << DoneNote >> ELSE << >>
             used == Len(first)
         IN  IF FallbackMatches(messages)
             THEN LET sim == SimActionNote(messages[Len(messages)].phrase)
                  IN  IF alive >= used + 2
                      THEN [sent |-> first \o << sim, SimErrorNote >>, rejects |-> FALSE]
                      ELSE IF alive >= used + 1
                      THEN [sent |-> first \o << sim, SimErrorNote, ErrorNote >>,
                            rejects |-> TRUE]
                      ELSE [sent |-> first \o << sim, ErrorNote >>, rejects |-> TRUE]
             ELSE [sent |-> first \o << ErrorNote >>, rejects |-> alive < used + 1]

\* --------------------------------------------------------------- the queue
\* pump without its busy check
PumpGuardAlways(b) == TRUE

\* if (busy) return;
PumpGuard(b) == ~b

\* queue.pop() in place of queue.shift()
QueuePop(q) == [next |-> q[Len(q)], rest |-> SubSeq(q, 1, Len(q) - 1)]

\* queue[0] in place of queue.shift(): the task stays in the queue
QueuePeek(q) == [next |-> Head(q), rest |-> q]

\* queue.shift()
QueueShift(q) == [next |-> Head(q), rest |-> Tail(q)]

\* Math.max(0, MIN_INTERVAL_MS - (Date.now() - lastStart))
PumpDelay(t, ls) == Max(0, MIN_INTERVAL_MS - (t - ls))

\* pump(), called with busy = b, queue = q; c, ta, s are cur, timerAt and st
\* before the call.
pump(b, q, c, ta, s) ==
    IF PumpGuard(b) /\ q # << >>
    THEN [busy |-> TRUE,
          queue |-> QueueShift(q).rest,
          cur |-> QueueShift(q).next,
          timerAt |-> now + PumpDelay(now, lastStart),
          st |-> [s EXCEPT ![QueueShift(q).next] = "spacing"]]
    ELSE [busy |-> b, queue |-> q, cur |-> c, timerAt |-> ta, st |-> s]

\* enqueue(task, tokens): queue.push, then pump()
enqueue(r) ==
    LET p == pump(busy, Append(queue, r), cur, timerAt, [st EXCEPT ![r] = "queued"])
    IN  /\ queue' = p.queue
        /\ busy' = p.busy
        /\ cur' = p.cur
        /\ timerAt' = p.timerAt
        /\ st' = p.st
        /\ enqOrder' = Append(enqOrder, r)

\* ------------------------------------------------------------- rate budget
\* if (now >= windowEndsAt) resetBuckets();
LazyReset(t, wEnd) == t >= wEnd

\* rpmRemaining > 0 && tpmRemaining - tokensNeeded >= 0
HasBudget(rpm, tpm, tokensNeeded) == rpm > 0 /\ tpm - tokensNeeded >= 0

\* Math.max(1, tokensNeeded)
Charge(tokensNeeded) == Max(1, tokensNeeded)

\* a wait of the minimum length, whatever is left of the window
BudgetWaitMinimum(t, wEnd) == BUDGET_MIN_WAIT_MS

\* Math.max(200, windowEndsAt - now + 100)
BudgetWait(t, wEnd) == Max(BUDGET_MIN_WAIT_MS, wEnd - t + BUDGET_MARGIN_MS)

Tokens(r) == estimateTokens(req[r].payload.messages, req[r].payload.context)

\* The HTTP requests that a call started at t surely issues before the window
\* ends: all of them when the call ends in the window, else the first, which
\* is issued as the call starts.
RequestsInWindow(t, transport) ==
    IF t + transport.after < WINDOW_MS THEN transport.attempts ELSE 1

\* One pass of awaitBudget's loop for task r at the instant now: admit r and
\* start its callback, or go to sleep until the next pass.
awaitBudget(r) ==
    LET reset == LazyReset(now, windowEndsAt)
        rpm == IF reset THEN RATE_MAX_RPM ELSE rpmRemaining
        tpm == IF reset THEN RATE_MAX_TPM ELSE tpmRemaining
        wEnd == IF reset THEN nextWindow(now) ELSE windowEndsAt
    IN  /\ windowEndsAt' = wEnd
        /\ IF HasBudget(rpm, tpm, Tokens(r))
           THEN /\ rpmRemaining' = rpm - 1
                /\ tpmRemaining' = tpm - Charge(Tokens(r))
                /\ st' = [st EXCEPT ![r] = "running"]
                /\ \E t \in Transports :
                      /\ timerAt' = now + t.after
                      /\ fetchOk' = t.ok
                      /\ winRequests' = winRequests + RequestsInWindow(now, t)
                /\ winAdmitted' = winAdmitted + 1
                /\ nReserved' = [nReserved EXCEPT ![r] = @ + 1]
                /\ nInvoked' = [nInvoked EXCEPT ![r] = @ + 1]
                /\ winTokens' = winTokens + Charge(Tokens(r))
                /\ runAt' = now
           ELSE /\ rpmRemaining' = rpm
                /\ tpmRemaining' = tpm
                /\ st' = [st EXCEPT ![r] = "budget"]
                /\ timerAt' = now + BudgetWait(now, wEnd)
                /\ UNCHANGED << fetchOk, histVars >>

\* The callback pump handed to setTimeout: lastStart = Date.now(), then
\* awaitBudget's first pass.
PumpTimer ==
    /\ cur # NoTask
    /\ st[cur] = "spacing"
    /\ now >= timerAt
    /\ lastStart' = now
    /\ awaitBudget(cur)
    /\ sent' = NoSent
    /\ UNCHANGED << now, keyVars, queue, busy, resetAt, cur, req, nAsk,
                    enqOrder, noKey >>
    /\ UNCHANGED callVars

\* awaitBudget resumes after sleep(wait).
BudgetWake ==
    /\ cur # NoTask
    /\ st[cur] = "budget"
    /\ now >= timerAt
    /\ awaitBudget(cur)
    /\ sent' = NoSent
    /\ UNCHANGED << now, keyVars, queue, busy, lastStart, resetAt, cur, req, nAsk, enqOrder, noKey >>
    /\ UNCHANGED callVars

\* The timer of scheduleNextReset: resetBuckets(), scheduleNextReset().
ResetTick ==
    /\ now >= resetAt
    /\ rpmRemaining' = RATE_MAX_RPM
    /\ tpmRemaining' = RATE_MAX_TPM
    /\ windowEndsAt' = nextWindow(now)
    /\ resetAt' = now + Max(0, nextWindow(now) - now)
    /\ sent' = NoSent
    /\ UNCHANGED << now, keyVars, queue, busy, lastStart, cur, timerAt, fetchOk, st, req,
                    nAsk, enqOrder, histVars, noKey >>
    /\ UNCHANGED callVars

\* the same code placed after the try block instead of in finally: skipped
\* when the callback rejects
finallySkippedOnReject(rejects, q, s) ==
    IF rejects
    THEN [busy |-> TRUE, queue |-> q, cur |-> NoTask, timerAt |-> 0, st |-> s]
    ELSE pump(FALSE, q, NoTask, 0, s)

\* finally { busy = false; pump(); } after the callback settled; rejects says
\* whether it rejected.
finally(rejects, q, s) == pump(FALSE, q, NoTask, 0, s)

\* The callback of cur settles (askOpenAI returns or rejects), then pump's
\* finally block.
Settle ==
    /\ cur # NoTask
    /\ st[cur] = "running"
    /\ now >= timerAt
    /\ fetchOk' = FALSE
    /\ \E hasAction \in BOOLEAN, alive \in 0..3 :
          LET res == askOpenAI(req[cur].payload.messages, fetchOk, hasAction, alive)
              p == finally(res.rejects, queue, [st EXCEPT ![cur] = "done"])
          IN  /\ sent' = [req |-> cur, notes |-> res.sent, ok |-> fetchOk, threw |-> res.rejects]
              /\ req' = [req EXCEPT ![cur] = NoReq]
              /\ queue' = p.queue
              /\ busy' = p.busy
              /\ cur' = p.cur
              /\ timerAt' = p.timerAt
              /\ st' = p.st
    /\ UNCHANGED << now, keyVars, lastStart, rateVars, resetAt, nAsk, enqOrder,
                    histVars, noKey >>
    /\ UNCHANGED callVars

\* ------------------------------------------------------- message handlers
\* the handler without its missing-key check
MissingKeyNever(k) == FALSE

\* if (!OPENAI_API_KEY)
MissingKey(k) == k = NoKey

\* The ASK_LLM handler from line 72 on, with the in-memory key k: reject,
\* drop (no sender tab) or enqueue.
AskDecide(r, tab, payload, k) ==
    IF MissingKey(k)
    THEN /\ st' = [st EXCEPT ![r] = "rejected"]
         /\ req' = [req EXCEPT ![r] = NoReq]
         /\ sent' = IF tab # NoTab
                    THEN [req |-> r, notes |-> << MissingKeyNote >>, ok |-> FALSE, threw |-> FALSE]
                    ELSE NoSent
         /\ UNCHANGED << queue, busy, cur, timerAt, enqOrder >>
    ELSE IF tab = NoTab
    THEN /\ st' = [st EXCEPT ![r] = "dropped"]
         /\ req' = [req EXCEPT ![r] = NoReq]
         /\ sent' = NoSent
         /\ UNCHANGED << queue, busy, cur, timerAt, enqOrder >>
    ELSE /\ enqueue(r)
         /\ req' = [req EXCEPT ![r] = [tab |-> tab, payload |-> payload, got |-> NoKey]]
         /\ sent' = NoSent

\* sender.tab?.id: a tab, or none when the sender is not a tab
Senders == Tabs \cup {NoTab}

\* ASK_LLM arrives (at most limit of them, with a payload of payloads, from a
\* sender of tabs).  With a key in memory the handler runs to its end at
\* once; without one it calls loadKeyFromSession and is suspended on the await.
AskLlm(limit, payloads, tabs) ==
    /\ nAsk < limit
    /\ \E tab \in tabs, payload \in payloads :
          LET r == nAsk + 1
          IN  /\ nAsk' = r
              /\ IF OPENAI_API_KEY # NoKey
                 THEN /\ noKey' = [noKey EXCEPT ![r] = FALSE]
                      /\ AskDecide(r, tab, payload, OPENAI_API_KEY)
                 ELSE /\ req' = [req EXCEPT ![r] = [tab |-> tab, payload |-> payload, got |-> sessionKey]]
                      /\ noKey' = [noKey EXCEPT ![r] = sessionKey = NoKey /\ localKey = NoKey]
                      /\ st' = [st EXCEPT ![r] = "load1"]
                      /\ sent' = NoSent
                      /\ UNCHANGED << queue, busy, cur, timerAt, enqOrder >>
    /\ UNCHANGED << now, keyVars, lastStart, rateVars, resetAt, fetchOk, histVars >>
    /\ UNCHANGED callVars

RecvAsk == AskLlm(MaxTasks, Payloads, Senders)

\* OPENAI_API_KEY = await loadKeyFromSession() resumes; if the key is still
\* missing the handler calls loadKeyFromLocal and is suspended again.
AskAfterSession(r) ==
    /\ st[r] = "load1"
    /\ OPENAI_API_KEY' = req[r].got
    /\ IF req[r].got = NoKey
       THEN /\ st' = [st EXCEPT ![r] = "load2"]
            /\ req' = [req EXCEPT ![r].got = localKey]
            /\ sent' = NoSent
            /\ UNCHANGED << queue, busy, cur, timerAt, enqOrder >>
       ELSE AskDecide(r, req[r].tab, req[r].payload, req[r].got)
    /\ UNCHANGED << now, sessionKey, localKey, nKeyMsg, lastStart, rateVars, resetAt,
                    fetchOk, nAsk, histVars, noKey >>
    /\ UNCHANGED callVars

\* OPENAI_API_KEY = await loadKeyFromLocal() resumes.
AskAfterLocal(r) ==
    /\ st[r] = "load2"
    /\ OPENAI_API_KEY' = req[r].got
    /\ AskDecide(r, req[r].tab, req[r].payload, req[r].got)
    /\ UNCHANGED << now, sessionKey, localKey, nKeyMsg, lastStart, rateVars, resetAt,
                    fetchOk, nAsk, histVars, noKey >>
    /\ UNCHANGED callVars

Pending(r) == st[r] \in {"load1", "load2"}

\* SET_API_KEY with key k (NoKey: an empty or blank string) and persist flag.
SetApiKey ==
    /\ nKeyMsg < MaxKeyMsgs
    /\ \E k \in Keys \cup {NoKey}, persist \in BOOLEAN :
          /\ OPENAI_API_KEY' = k
          /\ sessionKey' = k
          /\ localKey' = IF persist THEN k ELSE NoKey
          /\ noKey' = [r \in TaskIds |-> noKey[r] /\ ~(Pending(r) /\ k # NoKey)]
    /\ nKeyMsg' = nKeyMsg + 1
    /\ sent' = NoSent
    /\ UNCHANGED << now, queue, busy, lastStart, rateVars, resetAt, cur, timerAt, fetchOk, st,
                    req, nAsk, enqOrder, histVars >>
    /\ UNCHANGED callVars

\* CLEAR_API_KEY
ClearApiKey ==
    /\ nKeyMsg < MaxKeyMsgs
    /\ OPENAI_API_KEY' = NoKey
    /\ sessionKey' = NoKey
    /\ localKey' = NoKey
    /\ nKeyMsg' = nKeyMsg + 1
    /\ sent' = NoSent
    /\ UNCHANGED << now, queue, busy, lastStart, rateVars, resetAt, cur, timerAt, fetchOk, st,
                    req, nAsk, enqOrder, histVars, noKey >>
    /\ UNCHANGED callVars

\* -------------------------------------------------------------------- time
\* The deadlines still ahead, and the end of the current aligned window.
Deadlines ==
    {WINDOW_MS} \cup {d \in {resetAt} \cup (IF cur # NoTask THEN {timerAt} ELSE {}) : d > now}

NextInstant == CHOOSE d \in Deadlines : \A e \in Deadlines : d <= e

\* A deadline or window end after the shift to the next window; one that has
\* passed is due at every later instant.
ShiftDue(t) == Max(0, t - WINDOW_MS)

\* A start instant after the shift; one that lies MIN_INTERVAL_MS or more
\* before the window is as good as any earlier one.
ShiftStart(t) == Max(-MIN_INTERVAL_MS, t - WINDOW_MS)

\* A timer whose deadline has come: its callback runs before the clock moves
\* on (callbacks that are due at the same instant run in either order).
TimerDue == resetAt <= now \/ (cur # NoTask /\ timerAt <= now)

\* The clock advances to the next instant at which something can happen.
Tick ==
    /\ ~TimerDue
    /\ sent' = NoSent
    /\ IF NextInstant < WINDOW_MS
       THEN /\ now' = NextInstant
            /\ UNCHANGED << lastStart, rateVars, resetAt, timerAt, histVars >>
       ELSE /\ now' = 0
            /\ lastStart' = ShiftStart(lastStart)
            /\ runAt' = ShiftStart(runAt)
            /\ windowEndsAt' = ShiftDue(windowEndsAt)
            /\ resetAt' = ShiftDue(resetAt)
            /\ timerAt' = ShiftDue(timerAt)
            /\ winAdmitted' = 0
            /\ winTokens' = 0
            /\ winRequests' = 0
            /\ UNCHANGED << nReserved, nInvoked >>
            /\ UNCHANGED << rpmRemaining, tpmRemaining >>
    /\ UNCHANGED << keyVars, queue, busy, cur, fetchOk, st, req, nAsk, enqOrder, noKey >>
    /\ UNCHANGED callVars

Next ==
    \/ RecvAsk
    \/ \E r \in TaskIds : AskAfterSession(r)
    \/ \E r \in TaskIds : AskAfterLocal(r)
    \/ PumpTimer
    \/ BudgetWake
    \/ ResetTick
    \/ Settle
    \/ Tick

\* The dispatcher with the credential set at start-up (in session storage, or
\* missing for good).
Spec == Init /\ [][Next]_vars

\* Timers fire, storage reads return and every callback settles.
Fairness ==
    /\ WF_vars(Tick)
    /\ WF_vars(PumpTimer)
    /\ WF_vars(BudgetWake)
    /\ WF_vars(ResetTick)
    /\ WF_vars(Settle)
    /\ \A r \in TaskIds : WF_vars(AskAfterSession(r)) /\ WF_vars(AskAfterLocal(r))

\* ASK_LLM in the specification with fairness
RecvAskLive == AskLlm(MaxLiveTasks, Payloads, Senders)

LiveNext ==
    \/ RecvAskLive
    \/ \E r \in TaskIds : AskAfterSession(r)
    \/ \E r \in TaskIds : AskAfterLocal(r)
    \/ PumpTimer
    \/ BudgetWake
    \/ ResetTick
    \/ Settle
    \/ Tick

\* The dispatcher of Spec, with finitely many requests and every timer,
\* storage read and callback eventually served.
FairSpec == Init /\ [][LiveNext]_vars /\ Fairness

\* ASK_LLM in the specification with key messages
RecvAskKey == AskLlm(MaxKeyTasks, KeyPayloads, Senders)

KeyNext ==
    \/ RecvAskKey
    \/ \E r \in TaskIds : AskAfterSession(r)
    \/ \E r \in TaskIds : AskAfterLocal(r)
    \/ SetApiKey
    \/ ClearApiKey
    \/ PumpTimer
    \/ BudgetWake
    \/ ResetTick
    \/ Settle
    \/ Tick

\* The dispatcher with SET_API_KEY and CLEAR_API_KEY arriving at any moment.
KeySpec == Init /\ [][KeyNext]_vars

\* The worker after SET_API_KEY was handled: the key is in memory and in the
\* session store.
BurstInit ==
    /\ \E key \in Keys : StartedWith(key, BurstTaskIds)
    /\ fwb = NoCall
    /\ sse = NoCall
    /\ ask = NoCall

\* The payload of the burst: nothing to count.
BurstPayloads == { [messages |-> << >>, context |-> 0] }

\* ASK_LLM in the specification of a burst, from a tab
RecvAskBurst == AskLlm(MaxBurstTasks, BurstPayloads, Tabs)

\* With the key in memory no handler waits for a storage read, and
\* MaxBurstTasks requests of one token each exhaust neither counter, so no
\* pass of awaitBudget sleeps.
BurstNext ==
    \/ RecvAskBurst
    \/ PumpTimer
    \/ ResetTick
    \/ Settle
    \/ Tick

\* The dispatcher under a burst of small requests from one tab, the key
\* already in memory.
BurstSpec == BurstInit /\ [][BurstNext]_vars

\* ---------------------------------------------------------------- getStatus
\* a snapshot that reports the allowance used instead of the allowance left
getStatusUsed ==
    [queue |-> Len(queue),
     rpmRemaining |-> RATE_MAX_RPM - rpmRemaining,
     tpmRemaining |-> RATE_MAX_TPM - tpmRemaining,
     rpmMax |-> RATE_MAX_RPM,
     tpmMax |-> RATE_MAX_TPM,
     nextResetMs |-> Max(0, windowEndsAt - now)]

\* What the GET_STATUS handler responds with; the handler changes nothing.
getStatus ==
    [queue |-> Len(queue),
     rpmRemaining |-> rpmRemaining,
     tpmRemaining |-> tpmRemaining,
     rpmMax |-> RATE_MAX_RPM,
     tpmMax |-> RATE_MAX_TPM,
     nextResetMs |-> Max(0, windowEndsAt - now)]

\* -------------------------------------------------------- fetchWithBackoff
\* A call of fetchWithBackoff followed attempt by attempt.  fwb holds its
\* locals (i, delay, lastErr), where it stands (pc), the clock of the call in
\* milliseconds, and what happened: the HTTP requests issued, the response of
\* the current attempt (resp, at respAt) and of the one before (prev, at
\* prevAt), each failed attempt's own error (errs), and the error thrown.

\* The retry-after header of a 429 response: absent, a number of seconds, or
\* text that parseInt makes NaN of (an HTTP date).
HintSecs == {0, 1, 5}
NoHint == [kind |-> "none", secs |-> 0]
Hints ==
    {NoHint, [kind |-> "date", secs |-> 0]} \cup {[kind |-> "secs", secs |-> h] : h \in HintSecs}

\* What an attempt meets: 429, a status that is not ok, an ok response without
\* a body, fetch rejecting, the stream failing while it is read, or an ok
\* response whose stream is read to its end.
Responses ==
    {[kind |-> "429", hint |-> h] : h \in Hints}
        \cup {[kind |-> k, hint |-> NoHint] : k \in {"status", "nobody", "network", "stream", "ok"}}

NoResp == [kind |-> "none", hint |-> NoHint]

\* How long an attempt takes to be answered, and how late a timer may fire.
Latencies == {40}
Lateness == {0, 3}

NoErr == [msg |-> "null", at |-> 0]

\* The Error object attempt number n ends with (n counts from 1).
AttemptError(resp, n) ==
    [msg |-> CASE resp.kind = "429" -> "429 rate limit"
               [] resp.kind = "status" -> "500 Internal Server Error"
               [] resp.kind = "nobody" -> "200 OK"
               [] resp.kind = "network" -> "Failed to fetch"
               [] OTHER -> "stream read failed",
     at |-> n]

\* a loop that runs once more than attempts
MoreAttemptsInclusive(i) == i <= ATTEMPTS

\* for (let i = 0; i < attempts; i++)
MoreAttempts(i) == i < ATTEMPTS

\* a 429 that sleeps the backoff delay whatever the header says
extraBackoffOnly(hint, delay) == delay

\* const extra = ra ? parseInt(ra, 10) * 1000 : delay; sleep(NaN) is a timer
\* of 0 ms
extra(hint, delay) ==
    IF hint.kind = "none" THEN delay
    ELSE IF hint.kind = "secs" THEN hint.secs * 1000
    ELSE 0

\* lastErr assigned only while it is still null
lastErrKept(prev, e) == IF prev = NoErr THEN e ELSE prev

\* lastErr = new Error("429 rate limit"); lastErr = e;
lastErrAfter(prev, e) == e

\* throw lastErr || new Error("OpenAI request failed")
Thrown(lastErr) == IF lastErr = NoErr THEN [msg |-> "OpenAI request failed", at |-> 0] ELSE lastErr

\* The deltas parseSSE yields in attempt number n when the stream is read to
\* its end, and those it yields before a stream fails midway.
AttemptDeltas(n) == << [attempt |-> n, delta |-> "Hel"], [attempt |-> n, delta |-> "lo"] >>
PartialDeltas(n) == << [attempt |-> n, delta |-> "Hel"] >>

\* fullText declared once, before the loop: an attempt goes on from what the
\* attempts before it left
fullTextCarried(old) == old

\* let fullText = ""; old is what an earlier attempt accumulated
fullTextDeclared(old) == << >>

\* a 429 that leaves delay as it is
delayAfterKeptOn429(delay, resp) == IF resp.kind = "429" THEN delay ELSE delay * 2

\* delay *= 2, after the sleep of the 429 branch and after that of the catch
\* block
delayAfter(delay, resp) == IF resp.kind = "429" THEN delay * 2 ELSE delay * 2

FetchCall ==
    [pc |-> "attempt", i |-> 0, delay |-> BACKOFF_START_MS, lastErr |-> NoErr,
     clock |-> 0, wake |-> 0, issued |-> 0, issuedAt |-> 0,
     resp |-> NoResp, respAt |-> 0, prev |-> NoResp, prevAt |-> 0,
     errs |-> << >>, err |-> NoErr, fullText |-> << >>]

FetchInit ==
    /\ DispatcherInit
    /\ sessionKey = NoKey
    /\ fwb = FetchCall
    /\ sse = NoCall
    /\ ask = NoCall

\* The loop test, then fetch(url, ...) or the throw after the loop.
FetchAttempt ==
    /\ fwb.pc = "attempt"
    /\ fwb' = IF MoreAttempts(fwb.i)
              THEN [fwb EXCEPT !.pc = "pending", !.issued = @ + 1, !.issuedAt = fwb.clock]
              ELSE [fwb EXCEPT !.pc = "threw", !.err = Thrown(fwb.lastErr)]
    /\ UNCHANGED << dispatcherVars, sse, ask >>

\* The attempt is answered: the deltas of its stream are appended to a new
\* fullText and { fullText } is returned, or lastErr is set and the call
\* sleeps.
FetchResponse ==
    /\ fwb.pc = "pending"
    /\ \E resp \in Responses, d \in Latencies :
          LET t == fwb.clock + d
              e == AttemptError(resp, fwb.i + 1)
              text == IF resp.kind = "ok"
                      THEN fullTextDeclared(fwb.fullText) \o AttemptDeltas(fwb.i + 1)
                      ELSE IF resp.kind = "stream"
                      THEN fullTextDeclared(fwb.fullText) \o PartialDeltas(fwb.i + 1)
                      ELSE fwb.fullText
          IN  fwb' = IF resp.kind = "ok"
                     THEN [fwb EXCEPT !.pc = "returned", !.clock = t, !.resp = resp, !.respAt = t,
                                      !.fullText = text]
                     ELSE [fwb EXCEPT !.pc = "sleep", !.clock = t, !.resp = resp, !.respAt = t,
                                      !.fullText = text,
                                      !.lastErr = lastErrAfter(@, e),
                                      !.errs = Append(@, e),
                                      !.wake = t + (IF resp.kind = "429"
                                                    THEN extra(resp.hint, fwb.delay)
                                                    ELSE fwb.delay)]
    /\ UNCHANGED << dispatcherVars, sse, ask >>

\* sleep(...) resolves: delay *= 2, then i++.
FetchWake ==
    /\ fwb.pc = "sleep"
    /\ \E late \in Lateness :
          fwb' = [fwb EXCEPT !.pc = "attempt", !.clock = fwb.wake + late,
                             !.delay = delayAfter(@, fwb.resp),
                             !.i = @ + 1, !.prev = fwb.resp, !.prevAt = fwb.respAt]
    /\ UNCHANGED << dispatcherVars, sse, ask >>

FetchNext == FetchAttempt \/ FetchResponse \/ FetchWake

\* One call of fetchWithBackoff, whatever its attempts meet.
FetchSpec == FetchInit /\ [][FetchNext]_vars

\* ---------------------------------------------------------------- parseSSE
\* A call of parseSSE, with the loop of fetchWithBackoff that appends what it
\* yields to fullText.  The decoded stream is a sequence of pieces of text:
\* a newline, a blank, the field name "data:", a payload, or a line that is
\* no data field.  reader.read() hands over any number of pieces at a time.

\* lines in one stream
MaxLines == 3

Piece(t, delta) == [t |-> t, delta |-> delta]
NL == Piece("\n", "")
SP == Piece(" ", "")
DataField == Piece("data:", "")

\* Payloads: JSON with choices[0].delta.content (the empty string included),
\* JSON without it, text that is not JSON, and the [DONE] sentinel.
Deltas == {"Hel", "lo", " world"}
DataPayloads ==
    {Piece("json", d) : d \in Deltas \cup {""}}
        \cup {Piece("json without delta", ""), Piece("not json", ""), Piece("[DONE]", "")}

\* The lines of a stream: data lines, and a line with another field.
StreamLines ==
    {<< DataField, SP, x >> : x \in DataPayloads} \cup {<< Piece("event: ping", "") >>}

\* What ends line i of a stream of n lines: a blank line after every line
\* (one event each), one newline after every line (all of it left to the
\* flush), the two in turn (events of two lines), or a blank line after every
\* line but the last, which the end of the stream cuts off.
EndPatterns == {"events", "lines", "pairs", "cut off"}
LineEnd(pattern, i, n) ==
    IF pattern = "cut off" /\ i = n THEN << >>
    ELSE IF pattern \in {"events", "cut off"} \/ (pattern = "pairs" /\ i % 2 = 0) THEN << NL, NL >>
    ELSE << NL >>

RECURSIVE Flatten(_)
Flatten(parts) == IF parts = << >> THEN << >> ELSE Head(parts) \o Flatten(Tail(parts))

\* buffer.indexOf("\n\n"), counted from 1; 0 when there is none
RECURSIVE indexOf(_, _)
indexOf(buffer, from) ==
    IF from + 1 > Len(buffer) THEN 0
    ELSE IF buffer[from] = NL /\ buffer[from + 1] = NL THEN from
    ELSE indexOf(buffer, from + 1)

\* chunk.split("\n")
RECURSIVE split(_, _)
split(text, line) ==
    IF text = << >> THEN << line >>
    ELSE IF Head(text) = NL THEN << line >> \o split(Tail(text), << >>)
    ELSE split(Tail(text), Append(line, Head(text)))

\* l.trim()
RECURSIVE trimStart(_)
trimStart(line) ==
    IF line # << >> /\ Head(line) = SP THEN trimStart(Tail(line)) ELSE line

RECURSIVE trimEnd(_)
trimEnd(line) ==
    IF line # << >> /\ line[Len(line)] = SP THEN trimEnd(SubSeq(line, 1, Len(line) - 1)) ELSE line

trim(line) == trimEnd(trimStart(line))

\* chunk.split("\n").map((l) => l.trim()).filter(Boolean)
Lines(text) == SelectSeq([i \in 1..Len(split(text, << >>)) |-> trim(split(text, << >>)[i])],
                         LAMBDA l : l # << >>)

\* a parser that does not know the sentinel
IsDoneNever(data) == FALSE

\* data === "[DONE]"
IsDone(data) == data = << Piece("[DONE]", "") >>

\* JSON.parse(data), obj?.choices?.[0]?.delta?.content, if (token): what the
\* line yields, as the list of yielded texts
Yield(data) ==
    IF Len(data) = 1 /\ data[1].t = "json" /\ data[1].delta # ""
    THEN << data[1].delta >>
    ELSE << >>

\* JSON.parse(data) throws
BadJson(data) == ~(Len(data) = 1 /\ data[1].t \in {"json", "json without delta"})

\* a line loop without the try around JSON.parse: the exception leaves the
\* generator
RethrowsBadJson(data) == BadJson(data)

\* try { JSON.parse(data) ... } catch (_) { }: nothing leaves the try
Rethrows(data) == FALSE

\* for (const line of lines): the texts yielded, whether [DONE] made the
\* generator return, and whether an exception ended it
RECURSIVE forLines(_, _)
forLines(lines, text) ==
    IF lines = << >> THEN [text |-> text, done |-> FALSE, threw |-> FALSE]
    ELSE LET line == Head(lines)
             data == trim(Tail(line))
         IN  IF Head(line) # DataField THEN forLines(Tail(lines), text)
             ELSE IF IsDone(data) THEN [text |-> text, done |-> TRUE, threw |-> FALSE]
             ELSE IF Rethrows(data) THEN [text |-> text, done |-> TRUE, threw |-> TRUE]
             ELSE forLines(Tail(lines), text \o Yield(data))

\* while ((idx = buffer.indexOf("\n\n")) >= 0) { ... }
RECURSIVE whileEvents(_, _)
whileEvents(buffer, text) ==
    LET idx == indexOf(buffer, 1)
    IN  IF idx = 0 THEN [buffer |-> buffer, text |-> text, done |-> FALSE, threw |-> FALSE]
        ELSE LET r == forLines(Lines(SubSeq(buffer, 1, idx - 1)), text)
                 rest == SubSeq(buffer, idx + 2, Len(buffer))
             IN  IF r.done
                 THEN [buffer |-> rest, text |-> r.text, done |-> TRUE, threw |-> r.threw]
                 ELSE whileEvents(rest, r.text)

\* The streams: up to MaxLines lines, each with its end.
SseInit ==
    /\ DispatcherInit
    /\ sessionKey = NoKey
    /\ fwb = NoCall
    /\ ask = NoCall
    /\ \E n \in 1..MaxLines :
          \E lines \in [1..n -> StreamLines], pattern \in EndPatterns :
              LET whole == Flatten([i \in 1..n |-> lines[i] \o LineEnd(pattern, i, n)])
              IN  sse = [pc |-> "read",
                         lines |-> lines,
                         whole |-> whole,
                         stream |-> whole,
                         cut |-> FALSE,
                         buffer |-> << >>,
                         fullText |-> << >>]

\* a parser that forgets what it had buffered when the next read comes
bufferReplaced(buffer, value) == value

\* buffer += decoder.decode(value, { stream: true })
bufferAppended(buffer, value) == buffer \o value

\* reader.read() resolves with the next n pieces of the stream; cut records
\* that the stream did not come in one read.
SseRead ==
    /\ sse.pc = "read"
    /\ sse.stream # << >>
    /\ \E n \in {1, 2, 3, Len(sse.stream)} :
          /\ n <= Len(sse.stream)
          /\ LET r == whileEvents(bufferAppended(sse.buffer, SubSeq(sse.stream, 1, n)),
                                  sse.fullText)
             IN  sse' = [sse EXCEPT !.pc = IF r.threw THEN "threw"
                                          ELSE IF r.done THEN "returned" ELSE "read",
                                    !.stream = SubSeq(@, n + 1, Len(@)),
                                    !.cut = @ \/ n < Len(sse.whole),
                                    !.buffer = r.buffer,
                                    !.fullText = r.text]
    /\ UNCHANGED << dispatcherVars, fwb, ask >>

\* reader.read() resolves with done: the flush of what is left in the buffer.
SseEnd ==
    /\ sse.pc = "read"
    /\ sse.stream = << >>
    /\ LET r == forLines(Lines(sse.buffer), sse.fullText)
       IN  sse' = [sse EXCEPT !.pc = IF r.threw THEN "threw" ELSE "returned",
                              !.buffer = << >>,
                              !.fullText = r.text]
    /\ UNCHANGED << dispatcherVars, fwb, ask >>

SseNext == SseRead \/ SseEnd

\* One successful response read to its end, however it is cut into reads.
SseSpec == SseInit /\ [][SseNext]_vars

\* --------------------------------------------------------------- askOpenAI
\* A call of askOpenAI followed on its own: the request's turns, what
\* fetchWithBackoff gave, how many sends resolve, and what was sent.

\* The turns of a request: none; 'please highlight Create role'; 'what is
\* this?'; the first followed by an assistant turn; a user turn that does not
\* match followed by an assistant turn 'try highlight Save'.
AskMessages ==
    { << >>,
      << Turn("user", 28, TRUE, "Create role") >>,
      << Turn("user", 13, FALSE, "") >>,
      << Turn("user", 28, TRUE, "Create role"), Turn("assistant", 5, FALSE, "") >>,
      << Turn("user", 13, FALSE, ""), Turn("assistant", 18, TRUE, "Save") >> }

\* The full text of a response, as far as fullText.match(/\{[\s\S]*\}/) and
\* JSON.parse see it: no {...} block, a block that does not parse, a block
\* that parses to an object without an action field, with an action that is
\* not highlight, with action highlight.
ResponseTexts ==
    { [block |-> "none", action |-> ""],
      [block |-> "unparsable", action |-> ""],
      [block |-> "parsed", action |-> ""],
      [block |-> "parsed", action |-> "click"],
      [block |-> "parsed", action |-> "highlight"] }

\* fetchWithBackoff threw
NoText == [block |-> "no text", action |-> ""]

\* if (m) { const obj = JSON.parse(m[0]); if (obj && obj.action) ... }
ExtractsAction(text) == text.block = "parsed" /\ text.action # ""

\* chrome.tabs.sendMessage calls that resolve before the tab is gone
Alive == 0..3

NoOut == [sent |-> << >>, rejects |-> FALSE]

AskInit ==
    /\ DispatcherInit
    /\ sessionKey = NoKey
    /\ fwb = NoCall
    /\ sse = NoCall
    /\ \E messages \in AskMessages :
          ask = [pc |-> "called", messages |-> messages, text |-> NoText, alive |-> 0,
                 out |-> NoOut]

\* await fetchWithBackoff(body) returns { fullText } or throws.
AskFetched ==
    /\ ask.pc = "called"
    /\ \E text \in ResponseTexts \cup {NoText} :
          ask' = [ask EXCEPT !.pc = "fetched", !.text = text]
    /\ UNCHANGED << dispatcherVars, fwb, sse >>

\* The rest of askOpenAI: the sends of its try block or of its catch block.
AskNotify ==
    /\ ask.pc = "fetched"
    /\ \E alive \in Alive :
          ask' = [ask EXCEPT !.pc = "settled", !.alive = alive,
                             !.out = askOpenAI(ask.messages, ask.text # NoText,
                                               ExtractsAction(ask.text), alive)]
    /\ UNCHANGED << dispatcherVars, fwb, sse >>

AskNext == AskFetched \/ AskNotify

\* One call of askOpenAI, whatever the Transport and the tab do.
AskSpec == AskInit /\ [][AskNext]_vars

\* ============================================================== properties
Enqueued(r) == \E i \in 1..Len(enqOrder) : enqOrder[i] = r
InFlight == {r \in TaskIds : st[r] \in {"spacing", "budget", "running"}}
CallbackStarted(r) == st[r] \in {"running", "done"}
Count(notes, kind) == Cardinality({i \in 1..Len(notes) : notes[i].kind = kind})

\* C1: tasks are served in enqueue order: of two tasks, the one enqueued later
\* has its callback started only when the callback of the earlier one has
\* finished.
C1_FifoOrder ==
    \A i, j \in 1..Len(enqOrder) :
        (i < j /\ CallbackStarted(enqOrder[j])) => st[enqOrder[i]] = "done"

\* Two tasks were enqueued in the opposite order of their arrival (the second
\* handler's storage read returned first), the first enqueued has finished
\* and the second is running.
C1_Witness ==
    /\ Len(enqOrder) >= 2
    /\ enqOrder[1] > enqOrder[2]
    /\ st[enqOrder[1]] = "done"
    /\ st[enqOrder[2]] = "running"

\* C2: at most one task is between being taken by pump and the settling of
\* its callback; it is the task cur, and busy is set while there is one.
C2_OneInFlight ==
    /\ Cardinality(InFlight) <= 1
    /\ \A r \in InFlight : busy /\ cur = r

\* A task is running while two more, enqueued meanwhile, wait in the queue.
C2_Witness ==
    /\ cur # NoTask
    /\ st[cur] = "running"
    /\ Len(queue) >= 2

\* C3: a callback starts at least MIN_INTERVAL_MS after the previous callback
\* started.
C3_StartGap ==
    [][(\E r \in TaskIds : st[r] # "running" /\ st'[r] = "running")
          => now - runAt >= MIN_INTERVAL_MS]_vars

\* C4: within one aligned window at most RATE_MAX_RPM tasks are admitted and
\* at most RATE_MAX_TPM tokens deducted.
C4_WindowCeilings == winAdmitted <= RATE_MAX_RPM /\ winTokens <= RATE_MAX_TPM

\* C5: both counters are non-negative in every reachable state.
C5_CountersNonNegative == rpmRemaining >= 0 /\ tpmRemaining >= 0

\* C6: a task that waits in awaitBudget with an estimate above RATE_MAX_TPM
\* is eventually admitted.
C6_OverBudgetAdmitted ==
    \A r \in TaskIds :
        (st[r] = "budget" /\ Tokens(r) > RATE_MAX_TPM) ~> (st[r] = "running")

\* The callback of cur settles in this step, having failed: its Transport
\* failed or the callback itself rejected.
FailedSettle ==
    /\ cur # NoTask
    /\ st[cur] = "running"
    /\ st'[cur] = "done"
    /\ (sent'.threw \/ ~sent'.ok)

\* The timer callback that pump set for r has begun (lastStart stamped,
\* awaitBudget entered).
Started(r) == st[r] \in {"budget", "running", "done"}

\* C7: when a callback settles after a failure, busy is cleared and, if a task
\* is queued, the head of the queue is taken (busy set again, its timer
\* armed); the task taken is then eventually started (its timer callback
\* begins), and its own callback eventually runs whenever its estimate fits
\* a window's tokens.
C7_FailureDoesNotBlock ==
    /\ [][FailedSettle =>
            /\ busy' = (queue # << >>)
            /\ queue # << >> =>
                  /\ cur' = Head(queue)
                  /\ queue' = Tail(queue)
                  /\ st'[Head(queue)] = "spacing"]_vars
    /\ \A r \in TaskIds :
          (sent.req # NoTask /\ (sent.threw \/ ~sent.ok) /\ cur = r /\ st[r] = "spacing")
              ~> Started(r)
    /\ \A r \in TaskIds :
          (/\ sent.req # NoTask /\ (sent.threw \/ ~sent.ok)
           /\ cur = r /\ st[r] = "spacing" /\ Tokens(r) <= RATE_MAX_TPM)
              ~> CallbackStarted(r)

\* A callback has just rejected and the next task was taken from the queue.
C7_Witness ==
    /\ sent.req # NoTask
    /\ st[sent.req] = "done"
    /\ sent.threw
    /\ cur # NoTask
    /\ st[cur] = "spacing"

\* sendMessage was handed an LLM_DONE or an LLM_ERROR for r in this step.
Notified(r) ==
    /\ sent.req = r
    /\ Count(sent.notes, "LLM_DONE") + Count(sent.notes, "LLM_ERROR") >= 1

\* C8: every accepted request (one that was enqueued) is eventually sent
\* LLM_DONE or LLM_ERROR.
C8_EventuallyNotified ==
    \A r \in TaskIds :
        (st[r] \in {"queued", "spacing", "budget", "running"}) ~> Notified(r)

\* C9: a task's callback hands sendMessage exactly one terminal notification:
\* one LLM_DONE and no LLM_ERROR when the Transport returned text, one
\* LLM_ERROR and no LLM_DONE when it failed.
C9_OneTerminalNote ==
    (sent.req # NoTask /\ st[sent.req] = "done") =>
        /\ Count(sent.notes, "LLM_DONE") = (IF sent.ok THEN 1 ELSE 0)
        /\ Count(sent.notes, "LLM_ERROR") = (IF sent.ok THEN 0 ELSE 1)

\* C10: an ASK_LLM handled while no credential is available (none in memory,
\* in session storage or in local storage when it arrives, and none set while
\* its handler waits for the storage reads) ends rejected: the handler only
\* moves on to the local-storage read and then to the rejection, no step of it
\* changes the queue, the task in flight or the rate counters, the rejecting
\* step sends the one LLM_ERROR 'Missing API key' to the sender's tab (nothing
\* when the sender has no tab), and a rejected request stays rejected.
C10_MissingKeyRejected ==
    [][\A r \in TaskIds :
          /\ (Pending(r) /\ noKey[r] /\ st'[r] # st[r]) =>
                /\ st'[r] = (IF st[r] = "load1" THEN "load2" ELSE "rejected")
                /\ UNCHANGED << queue, busy, cur, timerAt, enqOrder, rpmRemaining,
                                tpmRemaining, windowEndsAt >>
                /\ st'[r] = "rejected" =>
                      sent' = IF req[r].tab # NoTab
                              THEN [req |-> r, notes |-> << MissingKeyNote >>,
                                    ok |-> FALSE, threw |-> FALSE]
                              ELSE NoSent
          /\ st[r] = "rejected" => st'[r] = "rejected"]_vars

\* A request has just been rejected for want of a key while an earlier task,
\* accepted before the key was cleared, is in flight and has been charged.
C10_Witness ==
    \E r \in TaskIds :
        /\ st[r] = "rejected"
        /\ noKey[r]
        /\ sent = [req |-> r, notes |-> << MissingKeyNote >>, ok |-> FALSE, threw |-> FALSE]
        /\ cur # NoTask
        /\ st[cur] = "running"
        /\ rpmRemaining < RATE_MAX_RPM

\* C11: one call of fetchWithBackoff issues at most ATTEMPTS (3) HTTP requests,
\* whatever its attempts meet.
C11_AtMostThreeRequests == fwb.issued <= ATTEMPTS

\* The call has thrown after three requests that met a 429, a failing stream
\* and a status that is not ok, in that order.
C11_Witness ==
    /\ fwb.pc = "threw"
    /\ fwb.issued = ATTEMPTS
    /\ Len(fwb.errs) = ATTEMPTS
    /\ fwb.errs[1].msg = "429 rate limit"
    /\ fwb.errs[2].msg = "stream read failed"
    /\ fwb.errs[3].msg = "500 Internal Server Error"

\* C12: an attempt that follows a 429 response with a retry-after of h seconds
\* is issued at least h seconds after that response.
C12_HintHonoured ==
    (fwb.pc \in {"pending", "sleep", "returned"} /\ fwb.prev.kind = "429"
        /\ fwb.prev.hint.kind = "secs")
      => fwb.issuedAt - fwb.prevAt >= fwb.prev.hint.secs * 1000

\* The second attempt has been issued after a 429 whose hint of 5 s exceeds
\* the backoff delay of that wait (1500 ms).
C12_Witness ==
    /\ fwb.pc = "pending"
    /\ fwb.i = 1
    /\ fwb.prev.kind = "429"
    /\ fwb.prev.hint = [kind |-> "secs", secs |-> 5]
    /\ BACKOFF_START_MS < 5000

\* C13: a call that throws throws the error of the last attempt made, every
\* attempt having failed, and a call returns text only from an attempt that
\* succeeded.
C13_LastErrorThrown ==
    /\ fwb.pc = "threw" =>
          /\ Len(fwb.errs) = fwb.issued
          /\ fwb.issued > 0
          /\ fwb.err = fwb.errs[Len(fwb.errs)]
          /\ fwb.err = AttemptError(fwb.resp, fwb.issued)
    /\ fwb.pc = "returned" => fwb.resp.kind = "ok"

\* The call has thrown '429 rate limit' of its third attempt after two
\* attempts that failed otherwise.
C13_Witness ==
    /\ fwb.pc = "threw"
    /\ fwb.err = [msg |-> "429 rate limit", at |-> 3]
    /\ fwb.errs[1].msg = "Failed to fetch"
    /\ fwb.errs[2].msg = "200 OK"

\* The deltas the data lines of a stream carry before the first [DONE] line,
\* the empty ones left out.
RECURSIVE DeltasBeforeDone(_)
DeltasBeforeDone(lines) ==
    IF lines = << >> THEN << >>
    ELSE LET line == Head(lines)
         IN  IF Head(line) # DataField THEN DeltasBeforeDone(Tail(lines))
             ELSE IF line[3].t = "[DONE]" THEN << >>
             ELSE (IF line[3].t = "json" /\ line[3].delta # "" THEN << line[3].delta >> ELSE << >>)
                      \o DeltasBeforeDone(Tail(lines))

\* C14: the text returned for a successful response is the deltas of the data
\* events before [DONE], in arrival order, the empty ones left out.
C14_FullTextIsDeltas ==
    sse.pc = "returned" => sse.fullText = DeltasBeforeDone(sse.lines)

\* The stream of the deltas 'Hel', 'lo', ' world' has been read to its end
\* and has given 'Hello world'.
C14_Witness ==
    /\ sse.pc = "returned"
    /\ Len(sse.lines) = 3
    /\ \A i \in 1..3 : Len(sse.lines[i]) = 3
    /\ sse.lines[1][3] = Piece("json", "Hel")
    /\ sse.lines[2][3] = Piece("json", "lo")
    /\ sse.lines[3][3] = Piece("json", " world")
    /\ sse.fullText = << "Hel", "lo", " world" >>

\* The call of askOpenAI has settled after fetchWithBackoff threw.
AskFailed == ask.pc = "settled" /\ ask.text = NoText

\* C15: after a Transport failure, a matching turn gives LLM_ACTION for its
\* phrase followed by one LLM_ERROR and nothing else; no match gives one
\* LLM_ERROR and nothing else.
C15_FallbackNotifications ==
    AskFailed =>
        LET notes == ask.out.sent
        IN  IF FallbackMatches(ask.messages)
            THEN /\ Len(notes) = 2
                 /\ notes[1] = SimActionNote(ask.messages[Len(ask.messages)].phrase)
                 /\ notes[2].kind = "LLM_ERROR"
            ELSE /\ Len(notes) = 1
                 /\ notes[1].kind = "LLM_ERROR"

\* The turns whose role is user, in order.
UserTurns(messages) == SelectSeq(messages, LAMBDA m : m.role = "user")

\* C16: after a Transport failure, LLM_ACTION is sent exactly when the most
\* recent user turn matches, and then for that turn's phrase.
C16_MostRecentUserTurn ==
    AskFailed =>
        LET users == UserTurns(ask.messages)
            notes == ask.out.sent
            actions == {notes[i] : i \in {j \in 1..Len(notes) : notes[j].kind = "LLM_ACTION"}}
        IN  IF users # << >> /\ users[Len(users)].hl
            THEN actions = {SimActionNote(users[Len(users)].phrase)}
            ELSE actions = {}

\* C17: after a successful response, LLM_ACTION is sent only for a block that
\* parses and carries action = highlight.
C17_OnlyRecognizedAction ==
    (ask.pc = "settled" /\ ask.text # NoText /\ Count(ask.out.sent, "LLM_ACTION") > 0)
        => (ask.text.block = "parsed" /\ ask.text.action = "highlight")

\* C18: a response without a {...} block, or whose block does not parse, ends
\* with LLM_DONE and nothing else.
C18_NoBlockOnlyDone ==
    (ask.pc = "settled" /\ ask.text.block \in {"none", "unparsable"})
        => ask.out.sent = << DoneNote >>

\* C19: the callback of a task never rejects.
C19_NoErrorEscapes == ~sent.threw

\* A step in which enqueue() is called.
EnqueueStep == enqOrder' # enqOrder

\* A step in which resetBuckets() is called: the reset timer's tick, or a
\* pass of awaitBudget at or after windowEndsAt.
ResetStep == ResetTick \/ ((PumpTimer \/ BudgetWake) /\ LazyReset(now, windowEndsAt))

\* C20 as stated: over a step with no enqueue and no reset, what GET_STATUS
\* reports does not grow in queue depth and does not shrink in remaining
\* allowances.
C20_AllowancesNeverShrink ==
    [][(~EnqueueStep /\ ~ResetStep) =>
          /\ getStatus'.queue <= getStatus.queue
          /\ getStatus'.rpmRemaining >= getStatus.rpmRemaining
          /\ getStatus'.tpmRemaining >= getStatus.tpmRemaining]_vars

\* C20, amended: over a step with no enqueue and no reset, what GET_STATUS
\* reports does not grow, neither in queue depth nor in remaining allowances;
\* as this holds of every step, it holds of any two calls with no enqueue and
\* no reset between them.
C20_StatusNeverGrows ==
    [][(~EnqueueStep /\ ~ResetStep) =>
          /\ getStatus'.queue <= getStatus.queue
          /\ getStatus'.rpmRemaining <= getStatus.rpmRemaining
          /\ getStatus'.tpmRemaining <= getStatus.tpmRemaining]_vars

\* A task has just been admitted while another is still queued, and no reset
\* came with it: GET_STATUS now reports less allowance than before the step
\* and the same queue depth.
C20_Witness ==
    /\ cur # NoTask
    /\ st[cur] = "running"
    /\ runAt = now
    /\ queue # << >>
    /\ winAdmitted >= 2
    /\ getStatus.rpmRemaining = RATE_MAX_RPM - winAdmitted
    /\ getStatus.queue = Len(queue)

\* C21: once a SET_API_KEY or CLEAR_API_KEY message has been handled, neither
\* the session store nor the local store holds a key: the key lives in the
\* worker's memory only.
C21_KeyInMemoryOnly ==
    nKeyMsg > 0 => (sessionKey = NoKey /\ localKey = NoKey)

\* C22: the counters rpmRemaining and tpmRemaining grow only in a step taken
\* at a window boundary, and only while no reservation has yet been deducted
\* in the window that opens there.
C22_ResetOnlyBeforeReservation ==
    [][(rpmRemaining' > rpmRemaining \/ tpmRemaining' > tpmRemaining)
           => (now = 0 /\ winAdmitted = 0)]_vars

\* C23: when fetchWithBackoff returned text, askOpenAI sends neither an
\* LLM_ERROR nor the synthesized highlight action, whether or not its sends
\* reach the tab.
C23_FallbackOnlyOnTransportFailure ==
    (ask.pc = "settled" /\ ask.text # NoText)
        => \A i \in 1..Len(ask.out.sent) :
               /\ ask.out.sent[i].kind # "LLM_ERROR"
               /\ ask.out.sent[i] \notin {SimActionNote(ask.messages[n].phrase) :
                                            n \in 1..Len(ask.messages)}

\* The callback of a task starts in this step: askOpenAI calls fetchWithBackoff,
\* which builds the Authorization header of all its attempts.
CallbackStarts == \E r \in TaskIds : st[r] # "running" /\ st'[r] = "running"

\* C25: the header of every HTTP attempt carries a key: when the callback of a
\* task starts and the header is built, OPENAI_API_KEY is not null.
C25_CredentialNeverNull ==
    [][CallbackStarts => OPENAI_API_KEY' # NoKey]_vars

\* C26: once a SET_API_KEY or CLEAR_API_KEY message was handled and no handler
\* is waiting for a storage read, the key in memory is the one that message
\* established, which is also what it left in the session store.
C26_LastKeyMessageWins ==
    (nKeyMsg > 0 /\ \A r \in TaskIds : ~Pending(r)) => OPENAI_API_KEY = sessionKey

\* C27: the text fetchWithBackoff returns is made of the deltas of the attempt
\* that was read to its end, and of nothing that an earlier attempt
\* accumulated.
C27_OnlySuccessfulAttemptText ==
    fwb.pc = "returned" => fwb.fullText = AttemptDeltas(fwb.issued)

\* The call returned from its third attempt after the streams of the first two
\* had each failed midway.
C27_Witness ==
    /\ fwb.pc = "returned"
    /\ fwb.issued = 3
    /\ Len(fwb.errs) = 2
    /\ \A n \in 1..2 : fwb.errs[n].msg = "stream read failed"
    /\ fwb.fullText = AttemptDeltas(3)

\* C28: the backoff delay is 1500 ms doubled once for every failed attempt,
\* whatever the attempt failed by and whether or not its wait used a
\* retry-after hint; a wait without a hint lasts that delay: 1500, 3000 and
\* 6000 ms after the first, second and third failed attempt.
C28_BackoffDoubles ==
    fwb.pc \in {"attempt", "pending", "sleep"} =>
        /\ fwb.delay = BACKOFF_START_MS * 2 ^ fwb.i
        /\ (fwb.pc = "sleep" /\ fwb.resp.hint = NoHint) =>
               fwb.wake - fwb.respAt = (CASE fwb.i = 0 -> 1500
                                          [] fwb.i = 1 -> 3000
                                          [] OTHER -> 6000)

\* The third attempt failed by a network error and the call waits 6000 ms,
\* after a second attempt answered 429 with retry-after: 5.
C28_Witness ==
    /\ fwb.pc = "sleep"
    /\ fwb.i = 2
    /\ fwb.prev = [kind |-> "429", hint |-> [kind |-> "secs", secs |-> 5]]
    /\ fwb.resp.kind = "network"
    /\ fwb.wake - fwb.respAt = 6000

\* What parseSSE yields when the whole stream comes in a single read.
OneRead(stream) ==
    LET r == whileEvents(stream, << >>)
    IN  IF r.done THEN r.text ELSE forLines(Lines(r.buffer), r.text).text

\* C29: however the stream is cut into reads, parseSSE yields the deltas it
\* yields when the whole stream comes in one read, a last event that only the
\* end of the stream terminates included.
C29_ChunkingIrrelevant ==
    sse.pc = "returned" => sse.fullText = OneRead(sse.whole)

\* A stream of two events of which the second has no newline after it, taken
\* in several reads: both deltas were yielded, the second by the flush.
C29_Witness ==
    /\ sse.pc = "returned"
    /\ sse.cut
    /\ Len(sse.lines) = 2
    /\ sse.lines[1] = << DataField, SP, Piece("json", "Hel") >>
    /\ sse.lines[2] = << DataField, SP, Piece("json", "lo") >>
    /\ sse.whole[Len(sse.whole)] = Piece("json", "lo")
    /\ sse.fullText = << "Hel", "lo" >>

\* A pass of awaitBudget that does not admit the task and goes to sleep.
BudgetRefused == (PumpTimer \/ BudgetWake) /\ st'[cur] = "budget"

\* C30: a pass of awaitBudget that cannot admit the task sleeps
\* max(200, windowEndsAt - now + 100) ms, which ends no earlier than the
\* window; and the pass after a sleep admits every task that costs at most
\* RATE_MAX_TPM.
C30_AdmittedAtFirstRecheck ==
    [][/\ BudgetRefused =>
              /\ timerAt' - now = Max(200, windowEndsAt' - now + 100)
              /\ timerAt' >= windowEndsAt'
       /\ (BudgetWake /\ Tokens(cur) <= RATE_MAX_TPM) => st'[cur] = "running"]_vars

\* A task that costs RATE_MAX_TPM, refused in the window before, has been
\* admitted by the pass that followed its sleep, 100 ms into the new window.
C30_Witness ==
    /\ cur # NoTask
    /\ st[cur] = "running"
    /\ Tokens(cur) = RATE_MAX_TPM
    /\ runAt = now
    /\ lastStart < runAt
    /\ now = BUDGET_MARGIN_MS

\* C24: the HTTP requests issued in one rate window, the retry attempts of
\* every admitted task counted, are at most RATE_MAX_RPM.
C24_RequestsWithinRpm == winRequests <= RATE_MAX_RPM

\* C31: after every handler and timer callback, a queue that is not empty
\* comes with busy set and a task that pump has taken and that waits for its
\* spacing timer, waits for budget or runs.
C31_WorkConserving ==
    queue # << >> =>
        /\ busy
        /\ cur # NoTask
        /\ st[cur] \in {"spacing", "budget", "running"}

\* Two tasks wait in the queue while the task taken before them sleeps in
\* awaitBudget.
C31_Witness ==
    /\ Len(queue) = 2
    /\ busy
    /\ cur # NoTask
    /\ st[cur] = "budget"

\* Task r is in the queue.
Queued(r) == \E i \in 1..Len(queue) : queue[i] = r

\* C32: a task is enqueued once, is no longer in the queue once pump has
\* taken it, and its callback is invoked and its reservation deducted once
\* at most, both exactly once when the callback has started.
C32_RunAndChargedOnce ==
    \A r \in TaskIds :
        /\ Cardinality({i \in 1..Len(enqOrder) : enqOrder[i] = r}) <= 1
        /\ Cardinality({i \in 1..Len(queue) : queue[i] = r}) <= 1
        /\ st[r] \in {"spacing", "budget", "running", "done"} => ~Queued(r)
        /\ nInvoked[r] <= 1
        /\ nReserved[r] <= 1
        /\ CallbackStarted(r) <=> (nInvoked[r] = 1 /\ nReserved[r] = 1)

\* The callback of a task that was refused in one window and admitted after
\* the reset has just rejected: it was invoked once and charged once.
C32_Witness ==
    /\ sent.threw
    /\ sent.req # NoTask
    /\ st[sent.req] = "done"
    /\ lastStart < runAt
    /\ nInvoked[sent.req] = 1
    /\ nReserved[sent.req] = 1

\* The lines of a stream without the data lines whose payload is not JSON.
WithoutMalformed(lines) ==
    SelectSeq(lines, LAMBDA l : ~(Head(l) = DataField /\ l[3].t = "not json"))

\* C33: a data line whose payload is not JSON ends neither the generator nor
\* the attempt: the text returned is the text of the same stream without
\* such lines, every delta before [DONE] in order.
C33_MalformedEventSkipped ==
    /\ sse.pc # "threw"
    /\ sse.pc = "returned" => sse.fullText = DeltasBeforeDone(WithoutMalformed(sse.lines))

\* A stream with a malformed event between the deltas 'Hel' and 'lo' has
\* been read to its end and has given both.
C33_Witness ==
    /\ sse.pc = "returned"
    /\ Len(sse.lines) = 3
    /\ sse.lines[1] = << DataField, SP, Piece("json", "Hel") >>
    /\ sse.lines[2] = << DataField, SP, Piece("not json", "") >>
    /\ sse.lines[3] = << DataField, SP, Piece("json", "lo") >>
    /\ sse.fullText = << "Hel", "lo" >>

====
